---- MODULE Spec2Model ----
(***************************************************************************)
(* Model of the two developer scripts of the repository:                   *)
(*   scripts/generate-all-tables.py       case conversion + manifest loop  *)
(*   scripts/get_company_schema_detailed.py   schema extractor             *)
(* A Python str is a sequence of one-character strings.                    *)
(***************************************************************************)
EXTENDS Integers, Sequences, FiniteSets, TLC

VARIABLES
  \* application of the three case functions to one argument
  arg, r_camel, r_pascal, r_kebab, cpc,
  \* generate-all-tables.py module body
  tables, idx, camel, pascal, kebab, ln, stdout, mpc,
  \* get_company_schema_detailed.py module body
  xpc, response, all_tables, company_table, division_table, output,
  log, file, requests, opens

caseVars == <<arg, r_camel, r_pascal, r_kebab, cpc>>
manifestVars == <<tables, idx, camel, pascal, kebab, ln, stdout, mpc>>
extractorVars == <<xpc, response, all_tables, company_table, division_table,
                   output, log, file, requests, opens>>
vars == <<arg, r_camel, r_pascal, r_kebab, cpc,
          tables, idx, camel, pascal, kebab, ln, stdout, mpc,
          xpc, response, all_tables, company_table, division_table, output,
          log, file, requests, opens>>

----------------------------------------------------------------------------
\* Bounds of the model.
MaxLen == 4
MaxTables == 2
MaxRels == 3
MaxListLen == 3

----------------------------------------------------------------------------
\* Characters and the str methods the scripts use.

LowerLetters ==
  <<"a", "b", "c", "d", "e", "f", "g", "h", "i", "j", "k", "l", "m",
    "n", "o", "p", "q", "r", "s", "t", "u", "v", "w", "x", "y", "z">>

UpperLetters ==
  <<"A", "B", "C", "D", "E", "F", "G", "H", "I", "J", "K", "L", "M",
    "N", "O", "P", "Q", "R", "S", "T", "U", "V", "W", "X", "Y", "Z">>

Digits == {"0", "1", "2", "3", "4", "5", "6", "7", "8", "9"}

Whitespace == {" ", "\t", "\n"}

Range(f) == {f[i] : i \in DOMAIN f}

IsSpace(c) == c \in Whitespace

\* the complement of the character class [^a-zA-Z0-9\s]
Allowed(c) ==
  c \in Range(LowerLetters) \cup Range(UpperLetters) \cup Digits \cup Whitespace

LowerChar(c) ==
  IF c \in Range(UpperLetters)
    THEN LowerLetters[CHOOSE i \in DOMAIN UpperLetters : UpperLetters[i] = c]
    ELSE c

UpperChar(c) ==
  IF c \in Range(LowerLetters)
    THEN UpperLetters[CHOOSE i \in DOMAIN LowerLetters : LowerLetters[i] = c]
    ELSE c

\* str.lower()
lower(w) == [i \in 1..Len(w) |-> LowerChar(w[i])]

\* str.upper()
upper(w) == [i \in 1..Len(w) |-> UpperChar(w[i])]

\* str.capitalize() with the rest of the word left as it is
capitalize_keep_rest(w) ==
  IF w = <<>> THEN <<>> ELSE <<UpperChar(Head(w))>> \o Tail(w)

\* str.capitalize(): first character upper-cased, the rest lower-cased
capitalize(w) ==
  IF w = <<>> THEN <<>> ELSE <<UpperChar(Head(w))>> \o lower(Tail(w))

\* re.sub(r'[^a-zA-Z0-9\s]', '', s)
re_sub(s) == SelectSeq(s, Allowed)

RECURSIVE split_from(_, _, _)
split_from(s, cur, acc) ==
  IF s = <<>>
    THEN IF cur = <<>> THEN acc ELSE Append(acc, cur)
    ELSE IF IsSpace(Head(s))
           THEN split_from(Tail(s), <<>>,
                           IF cur = <<>> THEN acc ELSE Append(acc, cur))
           ELSE split_from(Tail(s), Append(cur, Head(s)), acc)

\* str.split(): maximal runs of non-whitespace characters
split(s) == split_from(s, <<>>, <<>>)

RECURSIVE join(_, _)
\* sep.join(words)
join(sep, words) ==
  IF words = <<>> THEN <<>>
  ELSE IF Len(words) = 1 THEN Head(words)
  ELSE Head(words) \o sep \o join(sep, Tail(words))

\* The value of a call: the exception it raises ("none" when it returns)
\* and the value it returns.
Returns(v) == [exc |-> "none", val |-> v]
Raises(e) == [exc |-> e, val |-> <<>>]

\* words[0] raises IndexError on an empty list
to_camel_case(s) ==
  LET words == split(re_sub(s))
  IN  IF words = <<>>
        THEN Raises("IndexError")
        ELSE Returns(lower(words[1]) \o
                     join(<<>>, [i \in 1..(Len(words) - 1) |->
                                   capitalize(words[i + 1])]))

to_pascal_case(s) ==
  LET c == to_camel_case(s)
  IN  IF c.exc # "none" THEN c
      ELSE Returns(IF c.val # <<>>
                     THEN upper(<<c.val[1]>>) \o Tail(c.val)
                     ELSE <<>>)

\* the strip deletes a character, it does not put a space in its place
to_kebab_case(s) ==
  LET words == split(re_sub(s))
  IN  Returns(join(<<"-">>, [i \in 1..Len(words) |-> lower(words[i])]))

----------------------------------------------------------------------------
\* The hard-coded table configurations (the keys the script reads).
TABLES ==
  <<
     [name |-> <<"N", "o", "r", "m", "a", "l", "i", "z", "e", "d", " ", "A", "c", "t", "i", "v", "i", "t", "i", "e", "s">>,
      routePath |-> <<"n", "o", "r", "m", "a", "l", "i", "z", "e", "d", "-", "a", "c", "t", "i", "v", "i", "t", "i", "e", "s">>,
      relationships |-> <<>>],
     [name |-> <<"E", "F", "/", "D", "e", "t", "a", "i", "l", "e", "d", " ", "G">>,
      routePath |-> <<"e", "f", "-", "d", "e", "t", "a", "i", "l", "e", "d", "-", "g">>,
      relationships |-> <<[field |-> "EF GWP", table |-> "EF GWP", nameField |-> "Name"], [field |-> "GHG TYPE", table |-> "GHG TYPE", nameField |-> "Name"], [field |-> "Std Emission factors", table |-> "Std Emission factors", nameField |-> "Name"]>>],
     [name |-> <<"S", "c", "o", "p", "e">>,
      routePath |-> <<"s", "c", "o", "p", "e">>,
      relationships |-> <<>>],
     [name |-> <<"s", "c", "o", "p", "e", " ", "&", " ", "c", "a", "t", "e", "g", "o", "r", "i", "s", "a", "t", "i", "o", "n">>,
      routePath |-> <<"s", "c", "o", "p", "e", "-", "c", "a", "t", "e", "g", "o", "r", "i", "s", "a", "t", "i", "o", "n">>,
      relationships |-> <<[field |-> "Scope", table |-> "Scope", nameField |-> "Name"]>>],
     [name |-> <<"U", "n", "i", "t">>,
      routePath |-> <<"u", "n", "i", "t">>,
      relationships |-> <<>>],
     [name |-> <<"U", "n", "i", "t", " ", "C", "o", "n", "v", "e", "r", "s", "i", "o", "n">>,
      routePath |-> <<"u", "n", "i", "t", "-", "c", "o", "n", "v", "e", "r", "s", "i", "o", "n">>,
      relationships |-> <<[field |-> "Activity Density", table |-> "Activity Density", nameField |-> "Name"]>>],
     [name |-> <<"S", "t", "a", "n", "d", "a", "r", "d", " ", "E", "C", "M", " ", "c", "a", "t", "a", "l", "o", "g">>,
      routePath |-> <<"s", "t", "a", "n", "d", "a", "r", "d", "-", "e", "c", "m", "-", "c", "a", "t", "a", "l", "o", "g">>,
      relationships |-> <<[field |-> "Standard ECM Classification", table |-> "Standard ECM Classification", nameField |-> "Name"]>>],
     [name |-> <<"S", "t", "a", "n", "d", "a", "r", "d", " ", "E", "C", "M", " ", "C", "l", "a", "s", "s", "i", "f", "i", "c", "a", "t", "i", "o", "n">>,
      routePath |-> <<"s", "t", "a", "n", "d", "a", "r", "d", "-", "e", "c", "m", "-", "c", "l", "a", "s", "s", "i", "f", "i", "c", "a", "t", "i", "o", "n">>,
      relationships |-> <<[field |-> "Standard ECM catalog", table |-> "Standard ECM catalog", nameField |-> "Name"]>>]
  >>

----------------------------------------------------------------------------
\* Arguments of the case functions: every string over a small alphabet up to
\* MaxLen characters, and the display names of TABLES.

Alphabet == {"a", "B", "1", " ", "/"}

SeqsUpTo(S, n) == UNION {[1..k -> S] : k \in 0..n}

Names == SeqsUpTo(Alphabet, MaxLen) \cup {TABLES[i].name : i \in DOMAIN TABLES}

NoValue == Returns(<<>>)

ManifestIdle ==
  /\ tables = <<>> /\ idx = 0 /\ camel = <<>> /\ pascal = <<>>
  /\ kebab = <<>> /\ ln = 0 /\ stdout = <<>> /\ mpc = "idle"

None == [id |-> "None", tag |-> 0]

ExtractorIdle ==
  /\ xpc = "idle" /\ response = [status |-> 0, body |-> [json |-> FALSE, has_tables |-> FALSE, tables |-> <<>>]]
  /\ all_tables = <<>> /\ company_table = None /\ division_table = None
  /\ output = [company |-> None, division |-> None]
  /\ log = <<>> /\ file = [prior |-> TRUE, json |-> [company |-> None, division |-> None]]
  /\ requests = 0 /\ opens = 0

CaseIdle ==
  /\ arg = <<>> /\ r_camel = NoValue /\ r_pascal = NoValue
  /\ r_kebab = NoValue /\ cpc = "idle"

InitCase ==
  /\ arg \in Names
  /\ r_camel = NoValue /\ r_pascal = NoValue /\ r_kebab = NoValue
  /\ cpc = "camel"
  /\ ManifestIdle /\ ExtractorIdle

CallCamel ==
  /\ cpc = "camel"
  /\ r_camel' = to_camel_case(arg)
  /\ cpc' = "pascal"
  /\ UNCHANGED <<arg, r_pascal, r_kebab>>
  /\ UNCHANGED <<manifestVars, extractorVars>>

CallPascal ==
  /\ cpc = "pascal"
  /\ r_pascal' = to_pascal_case(arg)
  /\ cpc' = "kebab"
  /\ UNCHANGED <<arg, r_camel, r_kebab>>
  /\ UNCHANGED <<manifestVars, extractorVars>>

CallKebab ==
  /\ cpc = "kebab"
  /\ r_kebab' = to_kebab_case(arg)
  /\ cpc' = "done"
  /\ UNCHANGED <<arg, r_camel, r_pascal>>
  /\ UNCHANGED <<manifestVars, extractorVars>>

NextCase == CallCamel \/ CallPascal \/ CallKebab

SpecCase == InitCase /\ [][NextCase]_vars

----------------------------------------------------------------------------
\* generate-all-tables.py, module body.

\* Descriptor lists the loop is run on: the hard-coded TABLES, and every list
\* of up to MaxTables descriptors with a short display name and up to MaxRels
\* relationships.
ShortNames ==
  { <<"a", " ", "B", "B">>, <<"A", "/", "b">>, <<"/">>, <<" ">>, <<>> }

Relationship == [field |-> "F", table |-> "T", nameField |-> "Name"]

Descriptors ==
  { [name |-> n, routePath |-> <<"r", "-", "p">>,
     relationships |-> [i \in 1..k |-> Relationship]] :
      n \in ShortNames, k \in 0..MaxRels }

TableLists ==
  {TABLES} \cup UNION {[1..k -> Descriptors] : k \in 1..MaxTables}

\* One printed line: the iteration that printed it (0 outside the loop), the
\* label of the print statement, the interpolated string and suffix, and the
\* interpolated number.
Line(t, kind, a, suffix, n) ==
  [tbl |-> t, kind |-> kind, arg |-> a, suffix |-> suffix, n |-> n]

\* the artifact lines with Routes printed before Controller
ArtifactLines_swapped ==
  << [kind |-> "Types",      var |-> "pascal", suffix |-> ".ts"],
     [kind |-> "Service",    var |-> "pascal", suffix |-> "AirtableService.ts"],
     [kind |-> "Routes",     var |-> "camel",  suffix |-> "Routes.ts"],
     [kind |-> "Controller", var |-> "pascal", suffix |-> "Controller.ts"],
     [kind |-> "API Client", var |-> "camel",  suffix |-> ".ts"],
     [kind |-> "Config",     var |-> "camel",  suffix |-> "Config.tsx"],
     [kind |-> "Page",       var |-> "kebab",  suffix |-> "/page.tsx"],
     [kind |-> "Layout",     var |-> "kebab",  suffix |-> "/layout.tsx"] >>

\* the eight print statements that follow the header of a descriptor
ArtifactLines ==
  << [kind |-> "Types",      var |-> "pascal", suffix |-> ".ts"],
     [kind |-> "Service",    var |-> "pascal", suffix |-> "AirtableService.ts"],
     [kind |-> "Controller", var |-> "pascal", suffix |-> "Controller.ts"],
     [kind |-> "Routes",     var |-> "camel",  suffix |-> "Routes.ts"],
     [kind |-> "API Client", var |-> "camel",  suffix |-> ".ts"],
     [kind |-> "Config",     var |-> "camel",  suffix |-> "Config.tsx"],
     [kind |-> "Page",       var |-> "kebab",  suffix |-> "/page.tsx"],
     [kind |-> "Layout",     var |-> "kebab",  suffix |-> "/layout.tsx"] >>

InitManifest ==
  /\ tables \in TableLists
  /\ idx = 0 /\ camel = <<>> /\ pascal = <<>> /\ kebab = <<>>
  /\ ln = 0 /\ stdout = <<>> /\ mpc = "banner"
  /\ CaseIdle /\ ExtractorIdle

\* lines 119-121
PrintBanner ==
  /\ mpc = "banner"
  /\ stdout' = stdout \o
       << Line(0, "Will generate", <<>>, "", Len(tables)),
          Line(0, "Note", <<>>, "", 0),
          Line(0, "Note2", <<>>, "", 0) >>
  /\ mpc' = "for"
  /\ UNCHANGED <<tables, idx, camel, pascal, kebab, ln>>
  /\ UNCHANGED <<caseVars, extractorVars>>

\* line 123: the next descriptor, or the end of the list
ForTable ==
  /\ mpc = "for"
  /\ \/ /\ idx < Len(tables)
        /\ idx' = idx + 1
        /\ mpc' = "camel"
     \/ /\ idx >= Len(tables)
        /\ idx' = idx
        /\ mpc' = "done"
  /\ UNCHANGED <<tables, camel, pascal, kebab, ln, stdout>>
  /\ UNCHANGED <<caseVars, extractorVars>>

\* line 124; an exception is not caught and ends the script
AssignCamel ==
  /\ mpc = "camel"
  /\ LET r == to_camel_case(tables[idx].name)
     IN  IF r.exc # "none"
           THEN /\ mpc' = "raised"
                /\ camel' = camel
           ELSE /\ mpc' = "pascal"
                /\ camel' = r.val
  /\ UNCHANGED <<tables, idx, pascal, kebab, ln, stdout>>
  /\ UNCHANGED <<caseVars, extractorVars>>

\* line 125
AssignPascal ==
  /\ mpc = "pascal"
  /\ LET r == to_pascal_case(tables[idx].name)
     IN  IF r.exc # "none"
           THEN /\ mpc' = "raised"
                /\ pascal' = pascal
           ELSE /\ mpc' = "kebab"
                /\ pascal' = r.val
  /\ UNCHANGED <<tables, idx, camel, kebab, ln, stdout>>
  /\ UNCHANGED <<caseVars, extractorVars>>

\* line 126
AssignKebab ==
  /\ mpc = "kebab"
  /\ kebab' = tables[idx].routePath
  /\ mpc' = "header"
  /\ UNCHANGED <<tables, idx, camel, pascal, ln, stdout>>
  /\ UNCHANGED <<caseVars, extractorVars>>

\* line 128
PrintHeader ==
  /\ mpc = "header"
  /\ stdout' = Append(stdout, Line(idx, "Header", tables[idx].name, ":", 0))
  /\ ln' = 1
  /\ mpc' = "artifact"
  /\ UNCHANGED <<tables, idx, camel, pascal, kebab>>
  /\ UNCHANGED <<caseVars, extractorVars>>

\* lines 129-136, one print statement a step
PrintArtifact ==
  /\ mpc = "artifact"
  /\ LET a == ArtifactLines[ln]
         v == CASE a.var = "pascal" -> pascal
                [] a.var = "camel" -> camel
                [] a.var = "kebab" -> kebab
     IN  stdout' = Append(stdout, Line(idx, a.kind, v, a.suffix, 0))
  /\ IF ln < Len(ArtifactLines)
       THEN ln' = ln + 1 /\ mpc' = "artifact"
       ELSE ln' = 0 /\ mpc' = "relationships"
  /\ UNCHANGED <<tables, idx, camel, pascal, kebab>>
  /\ UNCHANGED <<caseVars, extractorVars>>

\* the relationships line printed for every descriptor
PrintRelationships_always ==
  /\ mpc = "relationships"
  /\ stdout' = Append(stdout, Line(idx, "Relationships", <<>>, "",
                                   Len(tables[idx].relationships)))
  /\ mpc' = "blank"
  /\ UNCHANGED <<tables, idx, camel, pascal, kebab, ln>>
  /\ UNCHANGED <<caseVars, extractorVars>>

\* lines 137-138: an empty list is falsy
PrintRelationships ==
  /\ mpc = "relationships"
  /\ IF tables[idx].relationships # <<>>
       THEN stdout' = Append(stdout, Line(idx, "Relationships", <<>>, "",
                                          Len(tables[idx].relationships)))
       ELSE stdout' = stdout
  /\ mpc' = "blank"
  /\ UNCHANGED <<tables, idx, camel, pascal, kebab, ln>>
  /\ UNCHANGED <<caseVars, extractorVars>>

\* line 139
PrintBlank ==
  /\ mpc = "blank"
  /\ stdout' = Append(stdout, Line(idx, "Blank", <<>>, "", 0))
  /\ mpc' = "for"
  /\ UNCHANGED <<tables, idx, camel, pascal, kebab, ln>>
  /\ UNCHANGED <<caseVars, extractorVars>>

NextManifest ==
  \/ PrintBanner
  \/ ForTable
  \/ AssignCamel
  \/ AssignPascal
  \/ AssignKebab
  \/ PrintHeader
  \/ PrintArtifact
  \/ PrintRelationships
  \/ PrintBlank

SpecManifest == InitManifest /\ [][NextManifest]_vars

----------------------------------------------------------------------------
\* get_company_schema_detailed.py.

COMPANY_TABLE_ID == "tbl82H6ezrakMSkV1"
DIVISION_TABLE_ID == "tblLIRnxlCNotH2FY"

\* A table object of the response: its 'id' ("absent" when the key is
\* missing, so that t.get('id') matches no wanted id) and a tag standing for
\* the rest of the object.
TableObjects ==
  [id : {COMPANY_TABLE_ID, DIVISION_TABLE_ID, "tblOther", "absent"},
   tag : {1, 2}]

SchemaLists == UNION {[1..k -> TableObjects] : k \in 0..MaxListLen}

\* Response bodies: a JSON object with a 'tables' list, a JSON object
\* without one, and a body that is not JSON.
Bodies ==
  {[json |-> TRUE, has_tables |-> TRUE, tables |-> l] : l \in SchemaLists}
    \cup {[json |-> TRUE, has_tables |-> FALSE, tables |-> <<>>],
          [json |-> FALSE, has_tables |-> FALSE, tables |-> <<>>]}

StatusCodes == {200, 201, 204, 299, 301, 401, 404, 500}

\* the success test widened to every 2xx status
IsSuccess_2xx(status) == status \in 200..299

\* line 20
IsSuccess(status) == status = 200

RECURSIVE next_last(_, _)
\* the last element with the wanted id
next_last(l, id) ==
  IF l = <<>> THEN None
  ELSE IF l[Len(l)].id = id THEN l[Len(l)]
  ELSE next_last(SubSeq(l, 1, Len(l) - 1), id)

RECURSIVE next_match(_, _)
\* next((t for t in all_tables if t.get('id') == id), None)
next_match(l, id) ==
  IF l = <<>> THEN None
  ELSE IF Head(l).id = id THEN Head(l)
  ELSE next_match(Tail(l), id)

InitExtractor ==
  /\ xpc = "request"
  /\ response = [status |-> 0,
                 body |-> [json |-> FALSE, has_tables |-> FALSE, tables |-> <<>>]]
  /\ all_tables = <<>> /\ company_table = None /\ division_table = None
  /\ output = [company |-> None, division |-> None]
  /\ log = <<>>
  /\ file = [prior |-> TRUE, json |-> [company |-> None, division |-> None]]
  /\ requests = 0 /\ opens = 0
  /\ CaseIdle /\ ManifestIdle

LogLine(kind, status, body, table) ==
  [kind |-> kind, status |-> status, text |-> body, table |-> table]

NoBody == [json |-> FALSE, has_tables |-> FALSE, tables |-> <<>>]

\* line 18: requests.get returns a response, or raises (no connection);
\* the exception is not caught and ends the script
Request ==
  /\ xpc = "request"
  /\ requests' = requests + 1
  /\ \/ /\ \E s \in StatusCodes, b \in Bodies :
             response' = [status |-> s, body |-> b]
        /\ xpc' = "check"
     \/ /\ response' = response
        /\ xpc' = "raised_request"
  /\ UNCHANGED <<all_tables, company_table, division_table, output, log,
                 file, opens>>
  /\ UNCHANGED <<caseVars, manifestVars>>

\* lines 20-21: response.json() raises on a body that is not JSON
ReturnTables ==
  /\ xpc = "check"
  /\ IsSuccess(response.status)
  /\ IF response.body.json
       THEN /\ all_tables' = IF response.body.has_tables
                               THEN response.body.tables
                               ELSE <<>>
            /\ xpc' = "find"
       ELSE /\ all_tables' = all_tables
            /\ xpc' = "raised_json"
  /\ UNCHANGED <<response, company_table, division_table, output, log,
                 file, requests, opens>>
  /\ UNCHANGED <<caseVars, manifestVars>>

\* the error branch that prints nothing
PrintError_silent ==
  /\ xpc = "check"
  /\ ~IsSuccess(response.status)
  /\ xpc' = "return_empty"
  /\ UNCHANGED <<response, all_tables, company_table, division_table, output,
                 log, file, requests, opens>>
  /\ UNCHANGED <<caseVars, manifestVars>>

\* lines 22-23
PrintError ==
  /\ xpc = "check"
  /\ ~IsSuccess(response.status)
  /\ log' = Append(log, LogLine("Error fetching tables", response.status,
                                response.body, None))
  /\ xpc' = "return_empty"
  /\ UNCHANGED <<response, all_tables, company_table, division_table, output,
                 file, requests, opens>>
  /\ UNCHANGED <<caseVars, manifestVars>>

\* the error branch that issues the request again
ReturnEmpty_retry ==
  /\ xpc = "return_empty"
  /\ xpc' = "request"
  /\ UNCHANGED <<response, all_tables, company_table, division_table, output,
                 log, file, requests, opens>>
  /\ UNCHANGED <<caseVars, manifestVars>>

\* line 24, and the assignment of line 27
ReturnEmpty ==
  /\ xpc = "return_empty"
  /\ all_tables' = <<>>
  /\ xpc' = "find"
  /\ UNCHANGED <<response, company_table, division_table, output, log,
                 file, requests, opens>>
  /\ UNCHANGED <<caseVars, manifestVars>>

\* lines 30-36
FindTables ==
  /\ xpc = "find"
  /\ company_table' = next_match(all_tables, COMPANY_TABLE_ID)
  /\ division_table' = next_match(all_tables, DIVISION_TABLE_ID)
  /\ output' = [company |-> company_table', division |-> division_table']
  /\ xpc' = "write"
  /\ UNCHANGED <<response, all_tables, log, file, requests, opens>>
  /\ UNCHANGED <<caseVars, manifestVars>>

\* lines 39-40: the file is opened for writing and the output dumped
WriteFile ==
  /\ xpc = "write"
  /\ opens' = opens + 1
  /\ file' = [prior |-> FALSE, json |-> output]
  /\ xpc' = "summary"
  /\ UNCHANGED <<response, all_tables, company_table, division_table, output,
                 log, requests>>
  /\ UNCHANGED <<caseVars, manifestVars>>

\* lines 42-49
PrintSummary ==
  /\ xpc = "summary"
  /\ log' = log
       \o <<LogLine("extracted successfully", 0, NoBody, None)>>
       \o (IF company_table # None
             THEN <<LogLine("Company table", 0, NoBody, company_table)>>
             ELSE <<>>)
       \o (IF division_table # None
             THEN <<LogLine("Division table", 0, NoBody, division_table)>>
             ELSE <<>>)
  /\ xpc' = "done"
  /\ UNCHANGED <<response, all_tables, company_table, division_table, output,
                 file, requests, opens>>
  /\ UNCHANGED <<caseVars, manifestVars>>

NextExtractor ==
  \/ Request
  \/ ReturnTables
  \/ PrintError
  \/ ReturnEmpty
  \/ FindTables
  \/ WriteFile
  \/ PrintSummary

SpecExtractor == InitExtractor /\ [][NextExtractor]_vars

----------------------------------------------------------------------------
\* Properties of the case functions (SpecCase).

Words(s) == split(re_sub(s))

RECURSIVE ConcatFirst(_, _)
ConcatFirst(f, n) == IF n = 0 THEN <<>> ELSE ConcatFirst(f, n - 1) \o f[n]

SameChar(c) == c

\* The camel form character by character: the first token lower-cased, the
\* first character of every later token upper-cased and Rest applied to its
\* other characters.
CamelForm(words, Rest(_)) ==
  ConcatFirst([k \in 1..Len(words) |->
                 [j \in 1..Len(words[k]) |->
                    IF k = 1 THEN LowerChar(words[k][j])
                    ELSE IF j = 1 THEN UpperChar(words[k][j])
                    ELSE Rest(words[k][j])]],
              Len(words))

StandardECMcatalog ==
  <<"S", "t", "a", "n", "d", "a", "r", "d", " ", "E", "C", "M", " ",
    "c", "a", "t", "a", "l", "o", "g">>

EFDetailedG ==
  <<"E", "F", "/", "D", "e", "t", "a", "i", "l", "e", "d", " ", "G">>

\* C7: to_kebab_case("EF/Detailed G") returns "ef-detailed-g", which is the
\* routePath hard-coded in the descriptor of that name.  (The call returns
\* "efdetailed-g".)
C7_KebabOfEFDetailedG ==
  /\ TABLES[2].name = EFDetailedG
  /\ (cpc = "done" /\ arg = EFDetailedG) =>
       /\ r_kebab = Returns(<<"e", "f", "-", "d", "e", "t", "a", "i", "l",
                              "e", "d", "-", "g">>)
       /\ r_kebab.val = TABLES[2].routePath

\* C8 as stated: for an input with at least one token, to_camel_case
\* lower-cases the first token, upper-cases the first letter of every later
\* token and leaves the rest of that token as in the input.
C8_RestOfTokenPreserved ==
  (cpc # "camel" /\ Words(arg) # <<>>) =>
    r_camel = Returns(CamelForm(Words(arg), SameChar))

\* C8 amended: for an input with at least one token, to_camel_case
\* lower-cases the first token, and upper-cases the first letter and
\* lower-cases the rest of every later token, and concatenates the tokens
\* with no separator; "Standard ECM catalog" gives "standardEcmCatalog".
C8_RestOfTokenLowered ==
  /\ (cpc # "camel" /\ Words(arg) # <<>>) =>
       r_camel = Returns(CamelForm(Words(arg), LowerChar))
  /\ (cpc # "camel" /\ arg = StandardECMcatalog) =>
       r_camel.val = <<"s", "t", "a", "n", "d", "a", "r", "d", "E", "c", "m",
                       "C", "a", "t", "a", "l", "o", "g">>

C8_Witness ==
  /\ cpc = "done"
  /\ arg = <<"a", " ", "B", "B">>
  /\ r_camel = Returns(<<"a", "B", "b">>)

\* C9: for every display name, to_pascal_case returns to_camel_case's result
\* with its first character upper-cased and the others unchanged, and the
\* empty string when that result is empty.
C9_PascalIsCamelUpperFirst ==
  cpc \in {"kebab", "done"} =>
    /\ r_camel.exc = "none"
    /\ r_pascal.exc = "none"
    /\ r_camel.val = <<>> => r_pascal.val = <<>>
    /\ r_camel.val # <<>> =>
         r_pascal.val = <<UpperChar(r_camel.val[1])>> \o Tail(r_camel.val)

----------------------------------------------------------------------------
\* Properties of the manifest loop (SpecManifest).

\* C1: on a display name with no token left after the strip, to_camel_case
\* returns the empty string and raises nothing, so the loop does not abort on
\* a descriptor of that name.
C1_NoTokenNameGivesEmpty ==
  (idx \in 1..Len(tables) /\ Words(tables[idx].name) = <<>>) =>
    /\ mpc # "raised"
    /\ mpc # "camel" => camel = <<>>

ClaimedOrder ==
  <<"Header", "Types", "Service", "Controller", "Routes", "API Client",
    "Config", "Page", "Layout", "Relationships", "Blank">>

Rank(kind) == CHOOSE r \in DOMAIN ClaimedOrder : ClaimedOrder[r] = kind

\* C5: the output follows the order of the descriptor list (every line of
\* descriptor i precedes every line of descriptor i+1), and the lines of one
\* descriptor come in the order type, service, controller, routes, client,
\* config, page, layout, relationships.
C5_OrderPreserved ==
  /\ \A i \in DOMAIN stdout :
       stdout[i].tbl >= 1 =>
         /\ stdout[i].tbl <= Len(tables)
         /\ stdout[i].kind = "Header" => stdout[i].arg = tables[stdout[i].tbl].name
         /\ stdout[i].kind = "Page" => stdout[i].arg = tables[stdout[i].tbl].routePath
  /\ \A i \in 1..(Len(stdout) - 1) :
       /\ stdout[i].tbl <= stdout[i + 1].tbl
       /\ (stdout[i].tbl = stdout[i + 1].tbl /\ stdout[i].tbl >= 1) =>
            Rank(stdout[i].kind) < Rank(stdout[i + 1].kind)

C5_Witness ==
  /\ mpc = "done"
  /\ tables = TABLES
  /\ stdout[Len(stdout)].tbl = Len(TABLES)
  /\ \E i \in DOMAIN stdout : stdout[i].tbl = 1 /\ stdout[i].kind = "Layout"

RelationshipLines(t) ==
  {i \in DOMAIN stdout : stdout[i].tbl = t /\ stdout[i].kind = "Relationships"}

BlockPrinted(t) ==
  \E i \in DOMAIN stdout : stdout[i].tbl = t /\ stdout[i].kind = "Blank"

\* C6: the block printed for a descriptor has a relationships line exactly
\* when the descriptor's relationships list is non-empty, and the number on
\* the line is the length of the list.
C6_RelationshipsLine ==
  /\ \A i \in DOMAIN stdout :
       stdout[i].kind = "Relationships" =>
         /\ tables[stdout[i].tbl].relationships # <<>>
         /\ stdout[i].n = Len(tables[stdout[i].tbl].relationships)
  /\ \A t \in 1..Len(tables) :
       BlockPrinted(t) =>
         IF tables[t].relationships # <<>>
           THEN Cardinality(RelationshipLines(t)) = 1
           ELSE RelationshipLines(t) = {}

C6_Witness ==
  /\ mpc = "done"
  /\ \E t \in 1..Len(tables) :
       /\ Len(tables[t].relationships) = 3
       /\ \E i \in RelationshipLines(t) : stdout[i].n = 3
  /\ \E t \in 1..Len(tables) :
       /\ tables[t].relationships = <<>>
       /\ BlockPrinted(t)
       /\ RelationshipLines(t) = {}

----------------------------------------------------------------------------
\* Properties of the extractor (SpecExtractor).

Returned == xpc \in {"find", "write", "summary", "done"}

Written == xpc \in {"summary", "done"}

TablesField(body) == IF body.has_tables THEN body.tables ELSE <<>>

ErrorLogged ==
  \E i \in DOMAIN log :
    log[i] = LogLine("Error fetching tables", response.status, response.body,
                     None)

NoErrorLine == \A i \in DOMAIN log : log[i].kind # "Error fetching tables"

NullOutput == [company |-> None, division |-> None]

\* C2 as stated: on every status in 200..299 get_all_tables returns the
\* 'tables' field of the decoded body (an empty list when it is absent) and
\* does not take the branch that logs and returns an empty list.
C2_Every2xxIsSuccess ==
  (response.status \in 200..299) =>
    /\ xpc # "return_empty"
    /\ NoErrorLine
    /\ Returned => all_tables = TablesField(response.body)

\* C2 amended: get_all_tables treats status 200 alone as success: on 200 it
\* returns the 'tables' field of the decoded body (an empty list when it is
\* absent) without logging; on every other status, 201..299 included, it
\* logs the status and body and returns an empty list.
C2_Only200IsSuccess ==
  /\ (response.status = 200) =>
       /\ xpc # "return_empty"
       /\ NoErrorLine
       /\ Returned => all_tables = TablesField(response.body)
  /\ (response.status \in 201..299) =>
       /\ xpc # "raised_json"
       /\ Returned => (ErrorLogged /\ all_tables = <<>>)

C2_Witness ==
  /\ Returned
  /\ response.status = 204
  /\ response.body.tables # <<>>
  /\ ErrorLogged
  /\ all_tables = <<>>

\* C3: on a non-2xx status the diagnostic with the status code and the body
\* is printed before get_all_tables returns the empty list, and the run
\* writes {"company": null, "division": null}, the file a successful request
\* with no matching table writes.
C3_FailureLogsAndWritesNulls ==
  (xpc # "request" /\ xpc # "raised_request"
     /\ response.status \notin 200..299) =>
    /\ xpc \in {"return_empty", "find", "write", "summary", "done"} =>
         ErrorLogged
    /\ Returned => all_tables = <<>>
    /\ Written =>
         /\ file = [prior |-> FALSE, json |-> NullOutput]
         /\ \A l \in SchemaLists :
              (\A i \in DOMAIN l :
                 l[i].id \notin {COMPANY_TABLE_ID, DIVISION_TABLE_ID}) =>
                file.json = [company |-> next_match(l, COMPANY_TABLE_ID),
                             division |-> next_match(l, DIVISION_TABLE_ID)]

C3_Witness ==
  /\ xpc = "done"
  /\ response.status = 404
  /\ \E i \in DOMAIN response.body.tables :
       response.body.tables[i].id = COMPANY_TABLE_ID
  /\ file = [prior |-> FALSE, json |-> NullOutput]
  /\ log[1].kind = "Error fetching tables"

FirstWithId(l, id, v) ==
  IF \E i \in DOMAIN l : l[i].id = id
    THEN \E i \in DOMAIN l :
           /\ l[i].id = id
           /\ \A j \in 1..(i - 1) : l[j].id # id
           /\ v = l[i]
    ELSE v = None

Wanted(t) == t.id \in {COMPANY_TABLE_ID, DIVISION_TABLE_ID}

\* C4: the written file has the two keys 'company' and 'division'; each is
\* the first element of the returned list with the wanted id, or null when
\* there is none; the values are those written for the list reduced to its
\* matching elements, whatever the other elements and the indices of the
\* matching ones.
C4_FileHoldsFirstMatches ==
  Written =>
    /\ ~file.prior
    /\ DOMAIN file.json = {"company", "division"}
    /\ FirstWithId(all_tables, COMPANY_TABLE_ID, file.json.company)
    /\ FirstWithId(all_tables, DIVISION_TABLE_ID, file.json.division)
    /\ LET matching == SelectSeq(all_tables, Wanted)
       IN  file.json = [company |-> next_match(matching, COMPANY_TABLE_ID),
                        division |-> next_match(matching, DIVISION_TABLE_ID)]

C4_Witness ==
  /\ xpc = "done"
  /\ Len(all_tables) = 3
  /\ all_tables[1].id = "tblOther"
  /\ all_tables[2] = [id |-> COMPANY_TABLE_ID, tag |-> 2]
  /\ all_tables[3] = [id |-> COMPANY_TABLE_ID, tag |-> 1]
  /\ file.json = [company |-> all_tables[2], division |-> None]

\* C10: a run issues one request and never a second one, writes the file at
\* most once and only after the request has returned a response; when the
\* request raises, the file is not opened and keeps its prior content.
C10_OneRequestThenOneWrite ==
  /\ requests <= 1
  /\ opens <= 1
  /\ xpc # "request" => requests = 1
  /\ opens = 1 => (requests = 1 /\ response.status # 0 /\ Written)
  /\ file.prior <=> opens = 0
  /\ xpc = "raised_request" => (opens = 0 /\ file.prior)

C10_Witness ==
  /\ xpc = "done"
  /\ requests = 1
  /\ opens = 1
  /\ ~file.prior

====
